---- MODULE Spec2Model ----
(***************************************************************************)
(* ads2bibdesk: one run of process_articles (BibDesk() construction, then  *)
(* process_token) against a BibDesk document, the ADS provider and the     *)
(* local disk.  Text is a sequence of one-character strings.               *)
(***************************************************************************)
EXTENDS Integers, Sequences, FiniteSets, TLC

\* ------------------------------------------------------------------ bounds

\* Largest number of publications in the document before the run.
MaxPubs == 2
\* Largest number of records the ADS query returns.
MaxRecords == 2
\* Longest note of a stored publication.
MaxNote == 2
\* Largest number of linked files of a stored publication.
MaxFiles == 2

\* ------------------------------------------------------- program constants

\* difflib.get_close_matches(..., cutoff=.7): the cutoff is CutoffNum/RatioDen.
CutoffNum == 7
\* SequenceMatcher(...).ratio() > .6: the threshold is GateNum/RatioDen.
GateNum == 6
\* Denominator shared by the two decimal literals .7 and .6.
RatioDen == 10

\* -------------------------------------------------------------------- text

Q == "\""
B == "\\"
None == "None"

\* Character codes, for Python's ordering of str values.
Code(c) ==
  CASE c = " " -> 32
    [] c = Q -> 34
    [] c = B -> 92
    [] c = "a" -> 97 [] c = "b" -> 98 [] c = "c" -> 99 [] c = "d" -> 100
    [] c = "e" -> 101 [] c = "f" -> 102 [] c = "g" -> 103 [] c = "h" -> 104
    [] c = "i" -> 105 [] c = "j" -> 106 [] c = "x" -> 120 [] c = "y" -> 121
    [] c = "z" -> 122
    [] OTHER -> 63

RECURSIVE StrLessFrom(_, _, _)
\* s < t for Python str values, deciding from position i on.
StrLessFrom(s, t, i) ==
  IF i > Len(s) THEN i <= Len(t)
  ELSE IF i > Len(t) THEN FALSE
  ELSE IF Code(s[i]) # Code(t[i]) THEN Code(s[i]) < Code(t[i])
  ELSE StrLessFrom(s, t, i + 1)

StrLess(s, t) == StrLessFrom(s, t, 1)

Min2(x, y) == IF x <= y THEN x ELSE y

\* ---------------------------------------------------------- difflib model

RECURSIVE CommonRun(_, _, _, _, _, _)
\* Length of the run of equal elements a[i..] = b[j..] inside [i,ahi) x [j,bhi)
\* (0-based, half-open, as in difflib).
CommonRun(a, b, i, j, ahi, bhi) ==
  IF i < ahi /\ j < bhi /\ a[i + 1] = b[j + 1]
  THEN 1 + CommonRun(a, b, i + 1, j + 1, ahi, bhi)
  ELSE 0

\* SequenceMatcher.find_longest_match(alo, ahi, blo, bhi) without junk: the
\* longest block, earliest in a, then earliest in b; <<alo, blo, 0>> if none.
FindLongestMatch(a, b, alo, ahi, blo, bhi) ==
  LET pairs == (alo .. (ahi - 1)) \X (blo .. (bhi - 1))
      run(p) == CommonRun(a, b, p[1], p[2], ahi, bhi)
      sized == [p \in pairs |-> run(p)]
      best == IF pairs = {} THEN 0
              ELSE CHOOSE k \in {sized[p] : p \in pairs} :
                     \A p \in pairs : sized[p] <= k
  IN  IF best = 0 THEN <<alo, blo, 0>>
      ELSE LET top == {p \in pairs : sized[p] = best}
               p0 == CHOOSE p \in top :
                       \A q \in top : p[1] < q[1] \/ (p[1] = q[1] /\ p[2] <= q[2])
           IN  <<p0[1], p0[2], best>>

RECURSIVE MatchCount(_, _, _, _, _, _)
\* Sum of the sizes of SequenceMatcher.get_matching_blocks() over the window.
MatchCount(a, b, alo, ahi, blo, bhi) ==
  LET m == FindLongestMatch(a, b, alo, ahi, blo, bhi)
      i == m[1]
      j == m[2]
      k == m[3]
  IN  IF k = 0 THEN 0
      ELSE k
           + (IF alo < i /\ blo < j THEN MatchCount(a, b, alo, i, blo, j) ELSE 0)
           + (IF i + k < ahi /\ j + k < bhi
              THEN MatchCount(a, b, i + k, ahi, j + k, bhi) ELSE 0)

\* Number of matched elements of SequenceMatcher(None, a, b).
Matches(a, b) == MatchCount(a, b, 0, Len(a), 0, Len(b))

\* Occurrences of c in s.
Count(s, c) == Cardinality({i \in 1 .. Len(s) : s[i] = c})

RECURSIVE SumOver(_, _)
SumOver(f, S) ==
  IF S = {} THEN 0
  ELSE LET x == CHOOSE y \in S : TRUE IN f[x] + SumOver(f, S \ {x})

\* Matched elements counted by SequenceMatcher.quick_ratio(): the size of the
\* multiset intersection of a and b.
QuickMatches(a, b) ==
  LET chars == {a[i] : i \in 1 .. Len(a)}
  IN  SumOver([c \in chars |-> Min2(Count(a, c), Count(b, c))], chars)

\* Matched elements assumed by SequenceMatcher.real_quick_ratio().
RealQuickMatches(a, b) == Min2(Len(a), Len(b))

\* difflib._calculate_ratio(matches, length) >= num/RatioDen; the ratio is
\* 2.0*matches/length, and 1.0 when length is 0.
RatioAtLeast(matches, length, num) ==
  IF length = 0 THEN RatioDen >= num
  ELSE 2 * matches * RatioDen >= num * length

\* difflib._calculate_ratio(matches, length) > num/RatioDen.
RatioAbove(matches, length, num) ==
  IF length = 0 THEN RatioDen > num
  ELSE 2 * matches * RatioDen > num * length

\* SequenceMatcher(None, a, b).ratio() as the pair <<numerator, denominator>>.
Ratio(a, b) ==
  IF Len(a) + Len(b) = 0 THEN <<1, 1>> ELSE <<2 * Matches(a, b), Len(a) + Len(b)>>

\* r1 < r2 and r1 = r2 for ratios given as pairs.
RatioLess(r1, r2) == r1[1] * r2[2] < r2[1] * r1[2]
RatioEq(r1, r2) == r1[1] * r2[2] = r2[1] * r1[2]

\* difflib.get_close_matches keeps x when all three ratios reach the cutoff
\* (a is the possibility x, b is the word).
CloseEnoughStrict(x, word) ==
  /\ RatioAbove(RealQuickMatches(x, word), Len(x) + Len(word), CutoffNum)
  /\ RatioAbove(QuickMatches(x, word), Len(x) + Len(word), CutoffNum)
  /\ RatioAbove(Matches(x, word), Len(x) + Len(word), CutoffNum)

CloseEnough(x, word) ==
  /\ RatioAtLeast(RealQuickMatches(x, word), Len(x) + Len(word), CutoffNum)
  /\ RatioAtLeast(QuickMatches(x, word), Len(x) + Len(word), CutoffNum)
  /\ RatioAtLeast(Matches(x, word), Len(x) + Len(word), CutoffNum)

\* (score1, x1) <= (score2, x2) as Python compares the tuples.
ScoredLeq(r1, x1, r2, x2) ==
  \/ RatioLess(r1, r2)
  \/ RatioEq(r1, r2) /\ (x1 = x2 \/ StrLess(x1, x2))

\* difflib.get_close_matches(word, possibilities, n=1, cutoff=.7): the list
\* holding the best-scored possibility, or the empty list.
GetCloseMatches(word, possibilities) ==
  LET kept == {possibilities[i] : i \in {j \in 1 .. Len(possibilities) :
                                           CloseEnough(possibilities[j], word)}}
  IN  IF kept = {} THEN <<>>
      ELSE <<CHOOSE x \in kept :
               \A y \in kept : ScoredLeq(Ratio(y, word), y, Ratio(x, word), x)>>

\* ------------------------------------------------- text put into commands

RECURSIVE ReplaceChar(_, _, _)
\* str.replace(c, r) for a one-character c.
ReplaceChar(s, c, r) ==
  IF s = <<>> THEN <<>>
  ELSE (IF Head(s) = c THEN r ELSE <<Head(s)>>) \o ReplaceChar(Tail(s), c, r)

\* s.replace('\\', r'\\').replace('"', r'\"')
Clean(s) == ReplaceChar(ReplaceChar(s, B, <<B, B>>), Q, <<B, Q>>)

\* ... .replace('}', ' ').replace('{', ' ') after the two replacements above.
CleanAbstract(s) == ReplaceChar(ReplaceChar(Clean(s), "}", <<" ">>), "{", <<" ">>)

RECURSIVE LiteralOKFrom(_, _)
\* Whether the characters put between the double quotes of a command form one
\* string literal: no bare double quote, every backslash followed by a double
\* quote or a backslash.
LiteralOKFrom(s, i) ==
  IF i > Len(s) THEN TRUE
  ELSE IF s[i] = Q THEN FALSE
  ELSE IF s[i] = B
       THEN i + 1 <= Len(s) /\ s[i + 1] \in {Q, B} /\ LiteralOKFrom(s, i + 2)
       ELSE LiteralOKFrom(s, i + 1)

LiteralOK(s) == LiteralOKFrom(s, 1)

RECURSIVE LiteralValueFrom(_, _)
\* The text a well-formed literal denotes.
LiteralValueFrom(s, i) ==
  IF i > Len(s) THEN <<>>
  ELSE IF s[i] = B THEN <<s[i + 1]>> \o LiteralValueFrom(s, i + 2)
  ELSE <<s[i]>> \o LiteralValueFrom(s, i + 1)

LiteralValue(s) == LiteralValueFrom(s, 1)

\* ------------------------------------------------------------------ state

VARIABLES
  env,          \* the inputs of the run: identifier, provider answers, prefs
  pubs0,        \* the publications of the document before the run
  groups0,      \* the static groups of the document before the run
  doc0,         \* BibDesk had a first document before the run
  disk0,        \* the paths that existed on disk before the run
  embedded0,    \* the paths whose file held embedded annotations before the run
  docOpen,      \* BibDesk has a first document
  pubs,         \* the publications of the document, in document order
  groups,       \* the static groups of the document: name and member ids
  disk,         \* the paths that exist on disk
  embedded,     \* the paths whose file holds embedded annotations
  renamed,      \* the renames of PDFs safe_delete made, in order
  nextId,       \* the id BibDesk gives the next publication
  titles,       \* bibdesk.titles
  ids,          \* bibdesk.ids
  pc,           \* position in process_articles / process_token
  err,          \* the unhandled exception that ended the run, if any
  result,       \* what process_token returned
  found,        \* found
  pid,          \* pid of the duplicate being merged
  kept_pdfs,    \* kept_pdfs
  kept_fields,  \* kept_fields
  kept_groups,  \* kept_groups
  src_i,        \* process_pdf: number of sources attempted
  attempts,     \* process_pdf: the attempts made, in order
  pdf_filename, \* pdf_filename
  pdf_status,   \* pdf_status
  pub,          \* id of the imported publication
  notified,     \* notifications delivered, in order
  cmds          \* commands sent to BibDesk, in order

inputVars == <<env, pubs0, groups0, doc0, disk0, embedded0>>
storeVars == <<docOpen, pubs, groups, nextId>>
diskVars == <<disk, embedded, renamed>>
cacheVars == <<titles, ids>>
keptVars == <<found, pid, kept_pdfs, kept_fields, kept_groups>>
pdfVars == <<src_i, attempts, pdf_filename, pdf_status>>
vars == <<inputVars, storeVars, diskVars, cacheVars, pc, err, result, keptVars,
          pdfVars, pub, notified, cmds>>

NoErr == [exc |-> "none", line |-> 0]
EmptyMap == [k \in {} |-> <<>>]

\* The document is addressed as publication id 0 in cmds.
Doc == 0

Cmd(op, p, arg) == [op |-> op, pid |-> p, arg |-> arg]

TitlesOf(ps) == [i \in 1 .. Len(ps) |-> ps[i].title]
IdsOf(ps) == [i \in 1 .. Len(ps) |-> ps[i].id]

\* list.index(x): the first position of x.
Index(seq, x) == CHOOSE i \in 1 .. Len(seq) :
                   seq[i] = x /\ \A j \in 1 .. (i - 1) : seq[j] # x

\* BibDesk.pid(title)
PidOf(title) == ids[Index(titles, title)]

\* 'first publication whose id is "p"'
PubIndex(ps, p) == CHOOSE i \in 1 .. Len(ps) :
                     ps[i].id = p /\ \A j \in 1 .. (i - 1) : ps[j].id # p
PubOf(ps, p) == ps[PubIndex(ps, p)]
HasPub(ps, p) == \E i \in 1 .. Len(ps) : ps[i].id = p

\* The publications with publication p changed to r.
WithPub(ps, p, r) == [ps EXCEPT ![PubIndex(ps, p)] = r]

\* The publications without publication p.
WithoutPubKeeps(ps, p) == ps

WithoutPub(ps, p) == SelectSeq(ps, LAMBDA r : r.id # p)

\* ----------------------------------------------------------- small steps

Crash(exc, line) ==
  /\ pc' = "crashed"
  /\ err' = [exc |-> exc, line |-> line]

Goto(p) ==
  /\ pc' = p
  /\ err' = err

\* notify(title, subtitle, desc): the notification is scheduled, or the
\* except branch calls growl_notify, a name this program never defines.
NotifyDelivers == env.deliverOK

\* The ADS record the run works on: ads_articles[0].
Article == env.ads[1]

\* BibDesk.refresh(): a blank document is made when none is open, then the
\* titles and ids are read.
RefreshCmds ==
  <<Cmd("return name of first document", Doc, <<>>)>>
  \o (IF docOpen THEN <<>> ELSE <<Cmd("make new document", Doc, <<>>)>>)
  \o <<Cmd("return title of publications", Doc, <<>>),
       Cmd("return id of publications", Doc, <<>>)>>

Refresh ==
  /\ docOpen' = TRUE
  /\ titles' = TitlesOf(pubs)
  /\ ids' = IdsOf(pubs)
  /\ cmds' = cmds \o RefreshCmds

\* ------------------------------------------------------------ the pipeline

\* process_articles: bibdesk = BibDesk()
Construct ==
  /\ pc = "start"
  /\ Refresh
  /\ Goto("query")
  /\ UNCHANGED <<inputVars, pubs, groups, nextId, diskVars, result, keptVars, pdfVars,
                 pub, notified>>

\* The test len(ads_articles) != 1 of process_token.
LookupFailedZeroOnly == Len(env.ads) = 0

LookupFailed == Len(env.ads) # 1

\* process_token: the ADS query and the test of its length.
Query ==
  /\ pc = "query"
  /\ Goto(IF LookupFailed THEN "abort" ELSE "export")
  /\ UNCHANGED <<inputVars, storeVars, diskVars, cacheVars, result, keptVars, pdfVars,
                 pub, notified, cmds>>

\* process_token, the branch len(ads_articles) != 1: notify, then
\* logging.info formats the undefined name article_identifiern, so the
\* return False below it is never reached.
AbortReport ==
  /\ pc = "abort"
  /\ IF NotifyDelivers
     THEN /\ notified' = Append(notified, "Found Zero or Multiple ADS antries for ")
          /\ Crash("NameError", 138)
     ELSE /\ notified' = notified
          /\ Crash("NameError", 369)
  /\ UNCHANGED <<inputVars, storeVars, diskVars, cacheVars, result, keptVars, pdfVars,
                 pub, cmds>>

\* process_token: ads.ExportQuery(...).execute()
Export ==
  /\ pc = "export"
  /\ Goto("pdf")
  /\ UNCHANGED <<inputVars, storeVars, diskVars, cacheVars, result, keptVars, pdfVars,
                 pub, notified, cmds>>

\* process_pdf: fulltext_sources
Sources == <<"pub", "eprint", "ads">>

\* process_pdf: the relay runs when ssh_user and ssh_server are not 'None'.
UseRelay == env.proxy.ssh_user # None /\ env.proxy.ssh_server # None

\* process_pdf: the loop over fulltext_sources is left after pass n, whose
\* file probed as a PDF or not: by the break, or because n was the last pass.
LoopEndsAtLast(ok, n) == n = Len(Sources)

LoopEnds(ok, n) == ok \/ n = Len(Sources)

\* process_pdf: 'PDF document' in get_filetype(pdf_filename) for the file of
\* source s: what the relay copied back when it ran, else what requests.get
\* downloaded.
ProbesAsPdf(s) == IF UseRelay THEN env.rvalid[s] ELSE env.valid[s]

\* process_pdf: one pass of the loop over fulltext_sources: download into a
\* fresh temporary file, relay, probe the file type.
PdfAttempt ==
  /\ pc = "pdf"
  /\ src_i < Len(Sources)
  /\ LET s == Sources[src_i + 1]
         ok == ProbesAsPdf(s)
     IN  /\ src_i' = src_i + 1
         /\ attempts' = Append(attempts, [source |-> s, relay |-> UseRelay])
         /\ pdf_filename' = [kind |-> "tmp", n |-> src_i + 1, ext |-> "pdf"]
         /\ pdf_status' = ok
         /\ Goto(IF LoopEnds(ok, src_i + 1) THEN "match" ELSE "pdf")
  /\ UNCHANGED <<inputVars, storeVars, diskVars, cacheVars, result, keptVars, pub,
                 notified, cmds>>

\* process_token: found = difflib.get_close_matches(title, bibdesk.titles, ...)
Match ==
  /\ pc = "match"
  /\ found' = GetCloseMatches(Article.title, titles)
  /\ Goto(IF Len(found') > 0 THEN "author_gate" ELSE "import")
  /\ UNCHANGED <<inputVars, storeVars, diskVars, cacheVars, result, pid, kept_pdfs,
                 kept_fields, kept_groups, pdfVars, pub, notified, cmds>>

\* The author test of process_token, once the first author a was read.
AuthorGateAlways(a) == TRUE

AuthorGatePasses(a) ==
  RatioAbove(Matches(a, Article.author), Len(a) + Len(Article.author), GateNum)

\* process_token: bibdesk.authors(bibdesk.pid(found[0]))[0] against
\* ads_article.author[0]; an empty author list has no element 0.
AuthorGate ==
  /\ pc = "author_gate"
  /\ LET as == PubOf(pubs, PidOf(found[1])).authors
     IN  IF Len(as) = 0 THEN Crash("IndexError", 168)
         ELSE Goto(IF AuthorGatePasses(as[1]) THEN "abstract_gate" ELSE "import")
  /\ cmds' = Append(cmds, Cmd("name of authors", PidOf(found[1]), <<>>))
  /\ UNCHANGED <<inputVars, storeVars, diskVars, cacheVars, result, keptVars, pdfVars,
                 pub, notified>>

\* The abstract test of process_token.
AbstractGateNoEmpty(abstract) ==
  RatioAbove(Matches(abstract, Article.abstract),
             Len(abstract) + Len(Article.abstract), GateNum)

AbstractGatePasses(abstract) ==
  \/ abstract = <<>>
  \/ RatioAbove(Matches(abstract, Article.abstract),
                Len(abstract) + Len(Article.abstract), GateNum)

\* process_token: the stored abstract against ads_article.abstract.
AbstractGate ==
  /\ pc = "abstract_gate"
  /\ Goto(IF AbstractGatePasses(PubOf(pubs, PidOf(found[1])).abstract)
          THEN "preserve" ELSE "import")
  /\ cmds' = Append(cmds, Cmd("abstract", PidOf(found[1]), <<>>))
  /\ UNCHANGED <<inputVars, storeVars, diskVars, cacheVars, result, keptVars, pdfVars,
                 pub, notified>>

\* BibDesk.get_groups(p): the names of the static groups holding p.
GetGroups(gs, p) ==
  LET in == SelectSeq(gs, LAMBDA g : p \in g.members)
  IN  [i \in 1 .. Len(in) |-> in[i].name]

\* The fields process_token keeps of the duplicate: every field but
\* Adscomment, and the note under the key BibDeskAnnotation.
KeptFields(f, note) ==
  [k \in (DOMAIN f \ {"Adscomment"}) \cup {"BibDeskAnnotation"} |->
     IF k = "BibDeskAnnotation" THEN note ELSE f[k]]

\* process_token: pid, kept_groups and kept_fields are read from the duplicate.
Preserve ==
  /\ pc = "preserve"
  /\ LET p == PidOf(found[1])
         old == PubOf(pubs, p)
     IN  /\ pid' = p
         /\ kept_groups' = GetGroups(groups, p)
         /\ kept_fields' = KeptFields(old.fields, old.note)
         /\ cmds' = cmds \o <<Cmd("get static groups", p, <<>>),
                              Cmd("return name of fields", p, <<>>),
                              Cmd("return value of fields", p, <<>>),
                              Cmd("return its note", p, <<>>)>>
  /\ Goto("safe_delete")
  /\ UNCHANGED <<inputVars, storeVars, diskVars, cacheVars, result, found, kept_pdfs,
                 pdfVars, pub, notified>>

\* A linked file whose path, or whose Skim notes, AppleScript gives as None.
NonePath == [stem |-> "None", tag |-> 0, ext |-> "None"]
NoneText == <<"None">>

\* [f for f in files if f is not None]
NotNone(seq, none) == SelectSeq(seq, LAMBDA x : x # none)

\* path + '_notes_{:d}.pdf'.format(n), and the .skim name beside it.
Backup(f, n) == [stem |-> f.stem, tag |-> n, ext |-> "pdf"]
Sidecar(f, n) == [stem |-> f.stem, tag |-> n, ext |-> "skim"]

RECURSIVE BackupSearch(_, _, _)
\* safe_delete: while os.path.exists(backup): suffix += 1, from suffix on.
BackupSearch(f, d, suffix) ==
  IF Backup(f, suffix) \in d THEN BackupSearch(f, d, suffix + 1) ELSE suffix

\* safe_delete: the suffix the while loop stops at, starting from suffix = 1.
BackupSuffixFirst(f, d) == 1

BackupSuffix(f, d) == BackupSearch(f, d, 1)

\* safe_delete: what one (f, n) pair of the loop does to st, the disk, the
\* embedded annotations, keptPDFs, the renames made (source, target and the
\* disk the target was chosen on) and the exception raised so far.
SafeDeleteOne(f, n, st) ==
  IF f.ext # "pdf" THEN st
  ELSE IF f.tag > 0 THEN [st EXCEPT !.kept = Append(@, f)]
  ELSE IF n # <<>> \/ f \in st.embedded
  THEN LET k == BackupSuffix(f, st.disk)
           d1 == (st.disk \ {f}) \cup {Backup(f, k)}
       IN  IF f \notin st.disk
           THEN [st EXCEPT !.err = [exc |-> "FileNotFoundError", line |-> 454]]
           ELSE [disk |-> IF Sidecar(f, 0) \in d1
                          THEN (d1 \ {Sidecar(f, 0)}) \cup {Sidecar(f, k)}
                          ELSE d1,
                 embedded |-> IF f \in st.embedded
                              THEN (st.embedded \ {f}) \cup {Backup(f, k)}
                              ELSE st.embedded \ {Backup(f, k)},
                 kept |-> Append(st.kept, Backup(f, k)),
                 log |-> Append(st.log, [from |-> f, to |-> Backup(f, k),
                                         disk |-> st.disk]),
                 err |-> st.err]
  ELSE IF f \notin st.disk
       THEN [st EXCEPT !.err = [exc |-> "FileNotFoundError", line |-> 461]]
       ELSE [st EXCEPT !.disk = @ \ {f}]

RECURSIVE SafeDeleteLoop(_, _, _, _)
\* safe_delete: the loop over zip(files, notes) from pair i on.
SafeDeleteLoop(fs, ns, i, st) ==
  IF i > Min2(Len(fs), Len(ns)) \/ st.err # NoErr THEN st
  ELSE SafeDeleteLoop(fs, ns, i + 1, SafeDeleteOne(fs[i], ns[i], st))

\* BibDesk.safe_delete(pid), called by process_token: the linked files are
\* kept aside or removed, then the publication is deleted.
SafeDelete ==
  /\ pc = "safe_delete"
  /\ LET old == PubOf(pubs, pid)
         fs == NotNone([i \in 1 .. Len(old.files) |-> old.files[i].path], NonePath)
         ns == NotNone([i \in 1 .. Len(old.files) |-> old.files[i].skim], NoneText)
         st == SafeDeleteLoop(fs, ns, 1, [disk |-> disk, embedded |-> embedded,
                                          kept |-> <<>>, log |-> <<>>,
                                          err |-> NoErr])
     IN  /\ disk' = st.disk
         /\ renamed' = renamed \o st.log
         /\ embedded' = st.embedded
         /\ IF st.err # NoErr
            THEN /\ Crash(st.err.exc, st.err.line)
                 /\ cmds' = cmds \o <<Cmd("POSIX path of linked files", pid, <<>>),
                                      Cmd("text Skim notes of linked files", pid, <<>>)>>
                 /\ UNCHANGED <<pubs, groups, kept_pdfs>>
            ELSE /\ Goto("dup_notify")
                 /\ cmds' = cmds \o <<Cmd("POSIX path of linked files", pid, <<>>),
                                      Cmd("text Skim notes of linked files", pid, <<>>),
                                      Cmd("delete", pid, <<>>)>>
                 /\ pubs' = WithoutPub(pubs, pid)
                 /\ groups' = [i \in 1 .. Len(groups) |->
                                 [groups[i] EXCEPT !.members = @ \ {pid}]]
                 /\ kept_pdfs' = kept_pdfs \o st.kept
  /\ UNCHANGED <<inputVars, docOpen, nextId, cacheVars, result, found, pid, kept_fields,
                 kept_groups, pdfVars, pub, notified>>

\* process_token: notify('Duplicate publication removed', ...)
DupNotify ==
  /\ pc = "dup_notify"
  /\ IF NotifyDelivers
     THEN /\ notified' = Append(notified, "Duplicate publication removed")
          /\ Goto("refresh")
     ELSE /\ notified' = notified
          /\ Crash("NameError", 369)
  /\ UNCHANGED <<inputVars, storeVars, diskVars, cacheVars, result, keptVars, pdfVars,
                 pub, cmds>>

\* process_token: bibdesk.refresh() after the duplicate was removed.
RefreshAfterDelete ==
  /\ pc = "refresh"
  /\ Refresh
  /\ Goto("import")
  /\ UNCHANGED <<inputVars, pubs, groups, nextId, diskVars, result, keptVars, pdfVars,
                 pub, notified>>

\* The text of the import command: the bibtex with backslashes and double
\* quotes escaped.
BibtexClean(s) == Clean(s)

\* The publication BibDesk builds from the bibtex text it was given.
NewPub(id, text) ==
  [id |-> id, title |-> Article.title, authors |-> Article.entry.authors,
   abstract |-> <<>>, fields |-> Article.entry.fields,
   note |-> Article.entry.note, files |-> <<>>, urls |-> Article.entry.urls,
   keyed |-> FALSE, autofiled |-> FALSE, bibtex |-> text]

\* process_token: import from "<bibtex>", then the id is read off the answer;
\* a command that does not compile answers None.
Import ==
  /\ pc = "import"
  /\ LET lit == BibtexClean(Article.bibtex)
     IN  /\ cmds' = Append(cmds, Cmd("import from", Doc, lit))
         /\ IF LiteralOK(lit)
            THEN /\ pubs' = Append(pubs, NewPub(nextId, LiteralValue(lit)))
                 /\ pub' = nextId
                 /\ nextId' = nextId + 1
                 /\ Goto("citekey")
            ELSE /\ Crash("AttributeError", 200)
                 /\ UNCHANGED <<pubs, pub, nextId>>
  /\ UNCHANGED <<inputVars, docOpen, groups, diskVars, cacheVars, result, keptVars,
                 pdfVars, notified>>

\* process_token: set cite key to generated cite key
SetCiteKey ==
  /\ pc = "citekey"
  /\ pubs' = WithPub(pubs, pub, [PubOf(pubs, pub) EXCEPT !.keyed = TRUE])
  /\ cmds' = Append(cmds, Cmd("set cite key to generated cite key", pub, <<>>))
  /\ Goto("abstract")
  /\ UNCHANGED <<inputVars, docOpen, groups, nextId, diskVars, cacheVars, result,
                 keptVars, pdfVars, pub, notified>>

\* A command 'set <what> to "<lit>"' on publication p: the property takes the
\* literal's value, or the command does not compile and changes nothing.
SetText(ps, p, what, lit) ==
  IF ~LiteralOK(lit) THEN ps
  ELSE IF what = "abstract"
       THEN WithPub(ps, p, [PubOf(ps, p) EXCEPT !.abstract = LiteralValue(lit)])
       ELSE WithPub(ps, p, [PubOf(ps, p) EXCEPT !.note = LiteralValue(lit)])

\* process_token: set abstract to "<ads_abstract_clean>"
SetAbstract ==
  /\ pc = "abstract"
  /\ pubs' = SetText(pubs, pub, "abstract", CleanAbstract(Article.abstract))
  /\ cmds' = Append(cmds, Cmd("set abstract to", pub, CleanAbstract(Article.abstract)))
  /\ Goto("attach")
  /\ UNCHANGED <<inputVars, docOpen, groups, nextId, diskVars, cacheVars, result,
                 keptVars, pdfVars, pub, notified>>

\* value of field "<name>": the empty text when the field is absent.
FieldValue(r, name) == IF name \in DOMAIN r.fields THEN r.fields[name] ELSE <<>>

\* 'http' in pdf_filename: the name mkstemp gave the temporary file is a
\* path, not a URL.
ContainsHttp(f) == f.kind = "url"

\* make new linked URL at end of linked URLs with data "<lit>"
AddUrl(ps, p, lit) ==
  IF ~LiteralOK(lit) THEN ps
  ELSE WithPub(ps, p, [PubOf(ps, p) EXCEPT !.urls = Append(@, LiteralValue(lit))])

\* process_token: the doi is read, then the PDF is linked and auto-filed, or
\* the URL in pdf_filename is linked when there is no doi.
Attach ==
  /\ pc = "attach"
  /\ LET doi == FieldValue(PubOf(pubs, pub), "Doi")
         new == PubOf(pubs, pub)
     IN  IF pdf_filename.ext = "pdf" /\ pdf_status
         THEN /\ pubs' = WithPub(pubs, pub,
                   [new EXCEPT !.files = <<[path |-> pdf_filename, skim |-> <<>>]>> \o @,
                               !.autofiled = TRUE])
              /\ cmds' = cmds \o <<Cmd("value of field doi", pub, <<>>),
                                   Cmd("add POSIX file to beginning", pub, <<pdf_filename>>),
                                   Cmd("auto file", pub, <<>>)>>
         ELSE IF ContainsHttp(pdf_filename) /\ doi = <<>>
         THEN /\ pubs' = AddUrl(pubs, pub, pdf_filename.url)
              /\ cmds' = cmds \o <<Cmd("value of field doi", pub, <<>>),
                                   Cmd("make new linked URL", pub, pdf_filename.url)>>
         ELSE /\ pubs' = pubs
              /\ cmds' = Append(cmds, Cmd("value of field doi", pub, <<>>))
  /\ Goto("urls")
  /\ UNCHANGED <<inputVars, docOpen, groups, nextId, diskVars, cacheVars, result,
                 keptVars, pdfVars, pub, notified>>

\* The fields whose name ends with "url", in field order.
UrlFieldNames == <<"Url", "Adsurl">>

\* get_gateway(article_identifier)['eprint_html']
EprintHtml == <<"e">>

RECURSIVE AddUrls(_, _, _)
\* One 'make new linked URL' command per element of us, in order.
AddUrls(ps, p, us) ==
  IF us = <<>> THEN ps ELSE AddUrls(AddUrl(ps, p, Head(us)), p, Tail(us))

\* process_token: the URLs to link: those of urls that are not in urlspub.
UrlsToAdd(r) ==
  LET present == SelectSeq(UrlFieldNames, LAMBDA k : k \in DOMAIN r.fields)
      urls == [i \in 1 .. Len(present) |-> r.fields[present[i]]]
               \o (IF env.arxiv THEN <<EprintHtml>> ELSE <<>>)
  IN  SelectSeq(urls, LAMBDA u : \A i \in 1 .. Len(r.urls) : r.urls[i] # u)

\* process_token: add URLs as linked URL if not there yet.
LinkUrls ==
  /\ pc = "urls"
  /\ LET us == UrlsToAdd(PubOf(pubs, pub))
     IN  /\ pubs' = AddUrls(pubs, pub, us)
         /\ cmds' = cmds \o <<Cmd("value of fields whose name ends with url", pub, <<>>),
                              Cmd("linked URLs", pub, <<>>)>>
                         \o [i \in 1 .. Len(us) |-> Cmd("make new linked URL", pub, us[i])]
  /\ Goto("kept_pdfs")
  /\ UNCHANGED <<inputVars, docOpen, groups, nextId, diskVars, cacheVars, result,
                 keptVars, pdfVars, pub, notified>>

\* process_token: add old annotated files.
AddKeptPdfs ==
  /\ pc = "kept_pdfs"
  /\ pubs' = WithPub(pubs, pub,
       [PubOf(pubs, pub) EXCEPT !.files =
          @ \o [i \in 1 .. Len(kept_pdfs) |-> [path |-> kept_pdfs[i], skim |-> <<>>]]])
  /\ cmds' = cmds \o [i \in 1 .. Len(kept_pdfs) |->
                        Cmd("add POSIX file to end", pub, <<kept_pdfs[i]>>)]
  /\ Goto("note")
  /\ UNCHANGED <<inputVars, docOpen, groups, nextId, diskVars, cacheVars, result,
                 keptVars, pdfVars, pub, notified>>

\* The characters process_token puts between the quotes of 'set its note to'.
NoteLiteral(s) == s

\* process_token: kept_fields.pop("BibDeskAnnotation", ''), then
\* set its note to "<bibdesk_annotation>"
SetNote ==
  /\ pc = "note"
  /\ LET annotation == IF "BibDeskAnnotation" \in DOMAIN kept_fields
                       THEN kept_fields["BibDeskAnnotation"] ELSE <<>>
     IN  /\ pubs' = SetText(pubs, pub, "note", NoteLiteral(annotation))
         /\ cmds' = Append(cmds, Cmd("set its note to", pub, NoteLiteral(annotation)))
  /\ kept_fields' = [k \in DOMAIN kept_fields \ {"BibDeskAnnotation"} |-> kept_fields[k]]
  /\ Goto("fields")
  /\ UNCHANGED <<inputVars, docOpen, groups, nextId, diskVars, cacheVars, result,
                 found, pid, kept_pdfs, kept_groups, pdfVars, pub, notified>>

\* process_token: the kept fields that are re-inserted.
RestoreNamesAll(kept, newFields) == DOMAIN kept

RestoreNames(kept, newFields) == {k \in DOMAIN kept : k \notin newFields}

RECURSIVE SeqOfSet(_)
SeqOfSet(S) ==
  IF S = {} THEN <<>>
  ELSE LET x == CHOOSE y \in S : TRUE IN <<x>> \o SeqOfSet(S \ {x})

\* process_token: re-insert custom fields.  The command is
\* 'set value of field "(k, v)" to "<pub>"' and is sent without a pid, so it
\* addresses the document, which has no fields: no publication changes.
RestoreFields ==
  /\ pc = "fields"
  /\ LET newFields == DOMAIN PubOf(pubs, pub).fields
         ks == SeqOfSet(RestoreNames(kept_fields, newFields))
     IN  cmds' = cmds \o <<Cmd("return name of fields", pub, <<>>)>>
                      \o [i \in 1 .. Len(ks) |->
                            Cmd("set value of field", Doc, <<ks[i], kept_fields[ks[i]]>>)]
  /\ Goto("add_notify")
  /\ UNCHANGED <<inputVars, storeVars, diskVars, cacheVars, result, keptVars, pdfVars,
                 pub, notified>>

\* process_token: notify('New publication added', cite key, title)
AddNotify ==
  /\ pc = "add_notify"
  /\ IF NotifyDelivers
     THEN /\ notified' = Append(notified, "New publication added")
          /\ Goto("groups")
     ELSE /\ notified' = notified
          /\ Crash("NameError", 369)
  /\ cmds' = Append(cmds, Cmd("cite key", pub, <<>>))
  /\ UNCHANGED <<inputVars, storeVars, diskVars, cacheVars, result, keptVars, pdfVars,
                 pub>>

\* The static group the script's 'get static group agroup' finds for name d.
GroupIndex(gs, d) == CHOOSE i \in 1 .. Len(gs) :
                       gs[i].name = d /\ \A j \in 1 .. (i - 1) : gs[j].name # d

RECURSIVE AddToGroups(_, _, _)
\* The repeat loop of the add_groups script: it stops at the first name that
\* names no static group.
AddToGroups(gs, p, names) ==
  IF names = <<>> THEN gs
  ELSE LET d == LiteralValue(Head(names))
       IN  IF \A i \in 1 .. Len(gs) : gs[i].name # d THEN gs
           ELSE AddToGroups([gs EXCEPT ![GroupIndex(gs, d)].members = @ \cup {p}],
                            p, Tail(names))

\* BibDesk.add_groups(pid, groups): each name is put between double quotes
\* as it is; a script that does not compile adds nothing.
AddGroups(gs, p, names) ==
  IF \E i \in 1 .. Len(names) : ~LiteralOK(names[i]) THEN gs
  ELSE AddToGroups(gs, p, names)

\* process_token: add back the static groups assignment, return True.
Finish ==
  /\ pc = "groups"
  /\ IF Len(kept_groups) # 0
     THEN /\ groups' = AddGroups(groups, pub, kept_groups)
          /\ cmds' = cmds \o <<Cmd("add_groups", pub, kept_groups),
                               Cmd("get static groups", pub, <<>>)>>
     ELSE UNCHANGED <<groups, cmds>>
  /\ result' = "True"
  /\ Goto("done")
  /\ UNCHANGED <<inputVars, docOpen, pubs, nextId, diskVars, cacheVars, keptVars,
                 pdfVars, pub, notified>>

\* ------------------------------------------------------------- the inputs

\* The title, first author and abstract of the ADS record.
TNew == <<"a", "b", "c", "d", "e", "f", "g", "h", "i", "j">>
ANew == <<"a", "b", "c", "d", "e">>
AbNew == <<"a", "b", "{", "c", "}">>

\* Stored titles: equal to TNew; ratio 14/20; ratio 16/23; ratio 12/20; the
\* letters of TNew reversed (quick ratio 1, ratio 2/20); one letter; empty.
T70 == <<"a", "b", "c", "d", "e", "f", "g", "x", "y", "z">>
T69 == <<"a", "b", "c", "d", "e", "f", "g", "h", "x", "y", "z", "x", "y">>
T60 == <<"a", "b", "c", "d", "e", "f", "x", "y", "z", "z">>
TRev == <<"j", "i", "h", "g", "f", "e", "d", "c", "b", "a">>
TitlePool == {TNew, T70, T69, T60, TRev, <<"a">>, <<>>}
GateTitles == {TNew, T70, T60}

\* Stored author lists: none; the same first author; ratio 6/10; ratio 8/10.
A60 == <<"a", "b", "c", "x", "y">>
A80 == <<"a", "b", "c", "d", "x">>
AuthorLists == {<<>>, <<ANew>>, <<A60>>, <<A80, ANew>>}

\* Stored abstracts: empty; equal to the new one; ratio 6/10; ratio 8/10.
Ab60 == <<"a", "b", "{", "x", "y">>
Ab80 == <<"a", "b", "{", "c", "x">>
Abstracts == {<<>>, AbNew, Ab60, Ab80}

AllValid == [s \in {"pub", "eprint", "ads"} |-> TRUE]
NoProxy == [ssh_user |-> None, ssh_server |-> None, ssh_port |-> "22"]

\* What BibDesk builds from the bibtex of the ADS record.
BaseEntry == [authors |-> <<ANew>>, fields |-> EmptyMap, note |-> <<>>, urls |-> <<>>]

BaseArticle ==
  [title |-> TNew, author |-> ANew, abstract |-> AbNew,
   bibtex |-> <<"a", Q, B, "b">>, entry |-> BaseEntry]

BaseEnv ==
  [arxiv |-> FALSE, ads |-> <<BaseArticle>>, valid |-> AllValid,
   rvalid |-> AllValid, proxy |-> NoProxy, deliverOK |-> TRUE]

\* A stored publication with nothing attached.
BasePub(id, title, authors, abstract) ==
  [id |-> id, title |-> title, authors |-> authors, abstract |-> abstract,
   fields |-> EmptyMap, note |-> <<>>, files |-> <<>>, urls |-> <<>>,
   keyed |-> TRUE, autofiled |-> FALSE, bibtex |-> <<>>]

\* The duplicate of the ADS record, and a publication that is no duplicate.
Twin(id) == BasePub(id, TNew, <<ANew>>, <<>>)
Bystander(id) == BasePub(id, T60, <<A60>>, Ab60)

\* A document whose first publication is first, followed by bystanders.
Padded(first, n) == [i \in 1 .. n |-> IF i = 1 THEN first ELSE Bystander(i)]

InitProgram ==
  /\ titles = <<>>
  /\ ids = <<>>
  /\ pc = "start"
  /\ err = NoErr
  /\ result = "none"
  /\ found = <<>>
  /\ pid = 0
  /\ kept_pdfs = <<>>
  /\ kept_fields = EmptyMap
  /\ kept_groups = <<>>
  /\ src_i = 0
  /\ attempts = <<>>
  /\ pdf_filename = [kind |-> "none", n |-> 0, ext |-> "none"]
  /\ pdf_status = FALSE
  /\ pub = 0
  /\ notified = <<>>
  /\ cmds = <<>>
  /\ nextId = Len(pubs) + 1
  /\ pubs0 = pubs
  /\ groups0 = groups
  /\ doc0 = docOpen
  /\ disk0 = disk
  /\ embedded0 = embedded
  /\ renamed = <<>>

NoFiles ==
  /\ disk = {}
  /\ embedded = {}

\* The lookup: zero to MaxRecords records, with or without an open document,
\* with or without a working notification center.
InitLookup ==
  /\ \E n \in 0 .. MaxRecords, d \in BOOLEAN :
       env = [BaseEnv EXCEPT !.ads = [i \in 1 .. n |-> BaseArticle], !.deliverOK = d]
  /\ docOpen \in BOOLEAN
  /\ \E n \in 0 .. MaxPubs :
       /\ docOpen \/ n = 0
       /\ pubs \in {Padded(Twin(1), n), Padded(Bystander(1), n)}
  /\ groups = <<>>
  /\ NoFiles

\* The titles: documents of up to MaxPubs titles against two new titles.
InitTitles ==
  /\ \E t \in {TNew, <<>>} :
       env = [BaseEnv EXCEPT !.ads = <<[BaseArticle EXCEPT !.title = t]>>]
  /\ docOpen = TRUE
  /\ \E n \in 0 .. MaxPubs : \E f \in [1 .. n -> TitlePool] :
       pubs = [i \in 1 .. n |-> BasePub(i, f[i], <<ANew>>, <<>>)]
  /\ groups = <<>>
  /\ NoFiles

\* The gates: a first publication with any stored title, author list and
\* abstract, followed by bystanders.
InitGates ==
  /\ env = BaseEnv
  /\ docOpen = TRUE
  /\ \E n \in 1 .. MaxPubs, x \in GateTitles \X AuthorLists \X Abstracts :
       pubs = Padded(BasePub(1, x[1], x[2], x[3]), n)
  /\ groups = <<>>
  /\ NoFiles

\* Authors and abstract of a publication that passes both gates, fails the
\* author gate, fails the abstract gate, or has no author.
GateProfiles == {<< <<ANew>>, <<>> >>, << <<A60>>, <<>> >>, << <<ANew>>, Ab60 >>,
                 << <<>>, <<>> >>}

\* The rivals: documents of up to MaxPubs publications, each with any of
\* the gate titles and any of the gate profiles.
InitRivals ==
  /\ env = BaseEnv
  /\ docOpen = TRUE
  /\ \E n \in 0 .. MaxPubs : \E f \in [1 .. n -> GateTitles \X GateProfiles] :
       pubs = [i \in 1 .. n |-> BasePub(i, f[i][1], f[i][2][1], f[i][2][2])]
  /\ groups = <<>>
  /\ NoFiles

\* What the old publication and the bibtex of the new one may carry as
\* fields: the old values are "o", the new ones "n".
OldFieldMaps == {[k \in S |-> <<"o">>] : S \in SUBSET {"Keywords", "Year", "Adscomment"}}
NewFieldMaps == {[k \in S |-> <<"n">>] : S \in SUBSET {"Year", "Doi", "Url"}}

\* The fields: a duplicate carrying any of the old fields, replaced by an
\* import carrying any of the new ones.
InitFields ==
  /\ \E nf \in NewFieldMaps :
       env = [BaseEnv EXCEPT !.ads = <<[BaseArticle EXCEPT !.entry.fields = nf]>>]
  /\ docOpen = TRUE
  /\ \E n \in 1 .. MaxPubs, of \in OldFieldMaps :
       pubs = Padded([Twin(1) EXCEPT !.fields = of], n)
  /\ groups = <<>>
  /\ NoFiles

\* The texts of at most n characters over plain, double quote and backslash.
Texts(n) == UNION {[1 .. k -> {"a", Q, B}] : k \in 0 .. n}

\* The notes: a duplicate with any note, and an import that comes with a
\* note or without.
InitNotes ==
  /\ \E nn \in {<<>>, <<"i">>} :
       env = [BaseEnv EXCEPT !.ads = <<[BaseArticle EXCEPT !.entry.note = nn]>>]
  /\ docOpen = TRUE
  /\ \E n \in 1 .. MaxPubs, t \in Texts(MaxNote) :
       pubs = Padded([Twin(1) EXCEPT !.note = t], n)
  /\ groups = <<>>
  /\ NoFiles

\* The names of the static groups of the document.
GroupNames == << <<"g">>, <<"h", Q>>, <<B, B>>, <<B>> >>

\* The groups: a duplicate that is a member of any of the static groups.
InitGroups ==
  /\ env = BaseEnv
  /\ docOpen = TRUE
  /\ \E n \in 1 .. MaxPubs : pubs = Padded(Twin(1), n)
  /\ \E S \in SUBSET (1 .. Len(GroupNames)) :
       groups = [i \in 1 .. Len(GroupNames) |->
                   [name |-> GroupNames[i],
                    members |-> (IF i \in S THEN {1} ELSE {})
                                \cup (IF i = 1 /\ Len(pubs) > 1 THEN {2} ELSE {})]]
  /\ NoFiles

\* The proxy preferences: each of the three either 'None' or set.
Proxies ==
  [ssh_user : {None, "u"}, ssh_server : {None, "s"}, ssh_port : {None, "22"}]

SourceNames == {Sources[i] : i \in 1 .. Len(Sources)}

\* The PDF sources: any identifier kind, any set of sources whose download
\* probes as a PDF, locally and through the relay, any proxy preferences, an
\* import with or without a Doi field, into an empty document.
InitPdf ==
  /\ \E a \in BOOLEAN, v \in [SourceNames -> BOOLEAN], rv \in [SourceNames -> BOOLEAN],
        p \in Proxies, nf \in {EmptyMap, [k \in {"Doi"} |-> <<"n">>]} :
       /\ (p.ssh_user = None \/ p.ssh_server = None) => rv = v
       /\ env = [BaseEnv EXCEPT !.arxiv = a, !.valid = v, !.rvalid = rv, !.proxy = p,
                                !.ads = <<[BaseArticle EXCEPT !.entry.fields = nf]>>]
  /\ docOpen = TRUE
  /\ pubs = <<>>
  /\ groups = <<>>
  /\ NoFiles

\* What the Url and Adsurl fields of the import may hold: nothing, the eprint
\* landing page, or another URL.
UrlFieldMaps ==
  UNION {[S -> {EprintHtml, <<"u">>}] : S \in SUBSET {"Url", "Adsurl"}}

\* The linked URLs: an import with any URL fields and any linked URLs of its
\* own (no URL twice), for any identifier kind, into an empty document.
InitUrls ==
  /\ \E a \in BOOLEAN, nf \in UrlFieldMaps,
        us \in {<<>>, <<EprintHtml>>, << <<"u">> >>, << <<"u">>, EprintHtml >>} :
       env = [BaseEnv EXCEPT !.arxiv = a,
                             !.ads = <<[BaseArticle EXCEPT !.entry.fields = nf,
                                                           !.entry.urls = us]>>]
  /\ docOpen = TRUE
  /\ pubs = <<>>
  /\ groups = <<>>
  /\ NoFiles

\* Paths: two PDFs, a PDF that has the kept name already, a text file.
PaperP == [stem |-> "p", tag |-> 0, ext |-> "pdf"]
PaperQ == [stem |-> "q", tag |-> 0, ext |-> "pdf"]
KeptK == [stem |-> "k", tag |-> 1, ext |-> "pdf"]
TextX == [stem |-> "x", tag |-> 0, ext |-> "txt"]

\* What the two reads of safe_delete may give for one linked file: its path
\* and the text of its Skim notes, either of them possibly None.
LinkedFiles ==
  {[path |-> PaperP, skim |-> <<>>], [path |-> PaperP, skim |-> <<"s">>],
   [path |-> PaperQ, skim |-> <<>>], [path |-> PaperQ, skim |-> <<"s">>],
   [path |-> KeptK, skim |-> <<"s">>],
   [path |-> TextX, skim |-> <<>>], [path |-> TextX, skim |-> NoneText],
   [path |-> NonePath, skim |-> <<>>], [path |-> NonePath, skim |-> NoneText]}

\* The linked files: a duplicate with up to MaxFiles linked files, no path
\* twice; the files are on disk, PaperQ possibly missing; backup names
\* and a Skim sidecar of PaperP may exist; PaperP may hold embedded annotations.
InitFiles ==
  /\ env = BaseEnv
  /\ docOpen = TRUE
  /\ \E n \in 0 .. MaxFiles : \E fl \in [1 .. n -> LinkedFiles] :
       /\ \A i, j \in 1 .. n : (i # j /\ fl[i].path = fl[j].path) => fl[i].path = NonePath
       /\ pubs = <<[Twin(1) EXCEPT !.files = fl]>>
       /\ \E gone \in SUBSET {PaperQ}, more \in SUBSET {Backup(PaperP, 1), Backup(PaperP, 2), Sidecar(PaperP, 0)} :
            disk = (({fl[i].path : i \in 1 .. n} \ {NonePath}) \ gone) \cup more
       /\ embedded \in SUBSET ({PaperP} \cap disk)
  /\ groups = <<>>

Init ==
  /\ \/ InitLookup
     \/ InitPdf
     \/ InitUrls
     \/ InitFiles
     \/ InitTitles
     \/ InitGates
     \/ InitRivals
     \/ InitFields
     \/ InitNotes
     \/ InitGroups
  /\ InitProgram

Next ==
  \/ Construct
  \/ Query
  \/ AbortReport
  \/ Export
  \/ PdfAttempt
  \/ Match
  \/ AuthorGate
  \/ AbstractGate
  \/ Preserve
  \/ SafeDelete
  \/ DupNotify
  \/ RefreshAfterDelete
  \/ Import
  \/ SetCiteKey
  \/ SetAbstract
  \/ Attach
  \/ LinkUrls
  \/ AddKeptPdfs
  \/ SetNote
  \/ RestoreFields
  \/ AddNotify
  \/ Finish

Spec == Init /\ [][Next]_vars

\* ------------------------------------------------------------- properties

Ended == pc \in {"done", "aborted", "crashed"}

\* The commands that only read the document.
ReadOps == {"return name of first document", "return title of publications",
            "return id of publications"}

\* The publication the title gate selected, as it was before the run.
Candidate ==
  LET ts == TitlesOf(pubs0)
  IN  pubs0[CHOOSE i \in 1 .. Len(ts) :
              ts[i] = found[1] /\ \A j \in 1 .. (i - 1) : ts[j] # found[1]]

\* The publications of the document before the run are all there, unchanged.
OldUntouched ==
  /\ Len(pubs) >= Len(pubs0)
  /\ \A i \in 1 .. Len(pubs0) : pubs[i] = pubs0[i]
  /\ \A i \in 1 .. Len(groups0) :
       groups[i].members \cap {pubs0[j].id : j \in 1 .. Len(pubs0)} = groups0[i].members

\* C1 as stated: when the lookup returns zero or several records, the run
\* changes nothing in the store: no document is made, no publication is made
\* or deleted, nothing is set, and no PDF download is attempted.
C1_NoMutationAtAll ==
  Len(env.ads) # 1 =>
    /\ docOpen = doc0
    /\ pubs = pubs0
    /\ groups = groups0
    /\ attempts = <<>>
    /\ \A i \in 1 .. Len(cmds) : cmds[i].op \in ReadOps

\* C1 as amended: when the lookup returns zero or several records, the only
\* change the run makes to the store is the blank document BibDesk() makes
\* when none is open; no publication is made or deleted, nothing is set, no
\* group changes and no PDF download is attempted.
C1_OnlyBlankDocument ==
  Len(env.ads) # 1 =>
    /\ pubs = pubs0
    /\ groups = groups0
    /\ disk = disk0
    /\ attempts = <<>>
    /\ pdf_status = FALSE
    /\ \A i \in 1 .. Len(cmds) :
         \/ cmds[i].op \in ReadOps
         \/ cmds[i].op = "make new document" /\ ~doc0
    /\ Cardinality({i \in 1 .. Len(cmds) : cmds[i].op = "make new document"}) <= 1

\* A run whose lookup returned several records has ended, with an open
\* document that holds publications.
C1_Witness == Ended /\ Len(env.ads) > 1 /\ Len(pubs0) > 0 /\ Len(cmds) > 0

\* C2: when the lookup returns a number of records other than one, the run
\* ends Aborted: the 'no update' report was emitted and process_token
\* returned False, and no unhandled error ended it.  Stated for the runs
\* whose notification center delivers, so that the report itself succeeds.
C2_AbortedReturnsFalse ==
  (Ended /\ Len(env.ads) # 1 /\ env.deliverOK) =>
    /\ pc = "aborted"
    /\ result = "False"
    /\ err = NoErr
    /\ Len(notified) = 1

\* C3: right after the title gate, a candidate is selected exactly when the
\* highest ratio of a stored title with the new title is at least 0.70, and
\* the candidate is a stored title that has this highest ratio.
C3_TitleGate ==
  (pc = "author_gate" \/ (pc = "import" /\ Len(found) = 0)) =>
    LET ts == TitlesOf(pubs0)
        r(i) == Ratio(ts[i], Article.title)
    IN  /\ Len(found) <= 1
        /\ Len(found) = 1 <=> \E i \in 1 .. Len(ts) : r(i)[1] * 10 >= 7 * r(i)[2]
        /\ Len(found) = 1 =>
             \E i \in 1 .. Len(ts) :
               /\ ts[i] = found[1]
               /\ \A j \in 1 .. Len(ts) : r(j)[1] * r(i)[2] <= r(i)[1] * r(j)[2]

\* The stored title whose ratio is exactly 0.70 was selected, next to a
\* title of ratio 16/23 that was not.
C3_Witness ==
  /\ pc = "author_gate"
  /\ found = <<T70>>
  /\ \E i \in 1 .. Len(pubs0) : pubs0[i].title = T69

\* The candidate's first author is missing or its ratio with the new first
\* author is at most 0.60.
AuthorTooFar ==
  \/ Len(Candidate.authors) = 0
  \/ LET r == Ratio(Candidate.authors[1], Article.author)
     IN  r[1] * 10 <= 6 * r[2]

\* The candidate's abstract is not empty and its ratio with the new abstract
\* is at most 0.60.
AbstractTooFar ==
  /\ Candidate.abstract # <<>>
  /\ LET r == Ratio(Candidate.abstract, Article.abstract)
     IN  r[1] * 10 <= 6 * r[2]

\* The merge of the candidate was decided: it is being, or was, preserved.
Merging == pc \in {"preserve", "safe_delete"} \/ pid # 0

\* C4: once the author gate has answered for the selected candidate, a
\* candidate without authors, or whose first author has a ratio of at most
\* 0.60 with the new first author, is rejected: the gate answers, nothing is
\* preserved and the candidate stays in the document; the gate passes only on
\* a ratio above 0.60.
C4_AuthorGate ==
  (Len(env.ads) = 1 /\ Len(found) = 1 /\ pc # "author_gate") =>
    /\ AuthorTooFar =>
         /\ ~Merging
         /\ kept_pdfs = <<>> /\ kept_fields = EmptyMap /\ Len(kept_groups) = 0
         /\ HasPub(pubs, Candidate.id) /\ PubOf(pubs, Candidate.id) = Candidate
         /\ ~(pc = "crashed" /\ err.line = 168)
    /\ (Merging \/ pc = "abstract_gate") => ~AuthorTooFar

\* C5: right after the abstract gate, for a candidate that passed the title
\* and author gates: it is merged if and only if its stored abstract is
\* empty or has a ratio above 0.60 with the new abstract.
C5_AbstractGate ==
  (Len(found) = 1 /\ pc \in {"preserve", "import"} /\ pub = 0 /\ ~AuthorTooFar) =>
    (Merging <=> ~AbstractTooFar)

\* A candidate with an empty stored abstract is about to be preserved, the
\* new abstract being non-empty.
C5_Witness ==
  /\ pc = "preserve"
  /\ Candidate.abstract = <<>>
  /\ Article.abstract # <<>>

\* The ids of the publications of the document before the run.
OldIds == {pubs0[j].id : j \in 1 .. Len(pubs0)}

\* C6: if the selected candidate fails one of the three gates, every
\* publication that was in the document is still there unchanged, groups
\* included, and the document holds at most one more publication, the
\* imported one; and no run deletes more than one old publication.
C6_NoSecondBest ==
  /\ \/ OldUntouched /\ Len(pubs) <= Len(pubs0) + 1 /\ disk = disk0
     \/ ~(Len(found) = 1 /\ (AuthorTooFar \/ AbstractTooFar))
  /\ Cardinality({p \in OldIds : ~HasPub(pubs, p)}) <= 1
  /\ \A i \in 1 .. Len(pubs) :
       pubs[i].id \in OldIds => pubs[i] = PubOf(pubs0, pubs[i].id)

\* A run is done whose candidate failed the author gate while another stored
\* publication, with a close enough title, would have passed every gate.
C6_Witness ==
  /\ pc = "done"
  /\ found = <<TNew>>
  /\ pid = 0
  /\ Len(pubs) = Len(pubs0) + 1
  /\ \E i \in 1 .. Len(pubs0) :
       pubs0[i].title = T70 /\ pubs0[i].authors = <<ANew>> /\ pubs0[i].abstract = <<>>

\* The duplicate that was merged, as it was before the run, and the
\* publication that replaces it.
Old == PubOf(pubs0, pid)
New == PubOf(pubs, pub)

\* The Restoring step is over on the merge path.
Restored == pid # 0 /\ pc \in {"add_notify", "groups", "done"}

\* C7: after the Restoring step of a merge, every field name present on the
\* old publication and on the imported one has the imported value on the new
\* publication, and no command was sent to set such a field.
C7_NewValueWins ==
  Restored =>
    \A k \in DOMAIN Old.fields \cap DOMAIN Article.entry.fields :
      /\ k \in DOMAIN New.fields
      /\ New.fields[k] = Article.entry.fields[k]
      /\ \A i \in 1 .. Len(cmds) :
           cmds[i].op = "set value of field" => cmds[i].arg[1] # k

\* A merge is done where the old and the imported publication both had a
\* Year field, with different values, and the old one had a field to restore.
C7_Witness ==
  /\ pc = "done"
  /\ pid # 0
  /\ "Year" \in DOMAIN Old.fields \cap DOMAIN Article.entry.fields
  /\ Old.fields["Year"] # Article.entry.fields["Year"]
  /\ "Keywords" \in DOMAIN Old.fields

\* C8: after a merge is done, every field of the old publication other than
\* Adscomment whose name the import did not bring is a field of the new
\* publication, with the old value.
C8_FieldsRestored ==
  (pc = "done" /\ pid # 0) =>
    \A k \in DOMAIN Old.fields \ ({"Adscomment"} \cup DOMAIN Article.entry.fields) :
      /\ k \in DOMAIN New.fields
      /\ New.fields[k] = Old.fields[k]

\* C9: when a merge is done, the new publication is a member of every static
\* group the old publication was a member of before the run.
C9_GroupsPreserved ==
  (pc = "done" /\ pid # 0) =>
    \A i \in 1 .. Len(groups0) :
      pid \in groups0[i].members => pub \in groups[i].members

\* C10: after the note was restored in a merge, the note of the new
\* publication is the note the old publication had, whatever its characters.
C10_NoteVerbatim ==
  (pid # 0 /\ pc \in {"fields", "add_notify", "groups", "done"}) =>
    New.note = Old.note

\* process_pdf has returned.
PdfReturned == src_i > 0 /\ pc # "pdf"

\* C11: the sources are attempted one after another in the configured order,
\* each at most once; when process_pdf has returned after k attempts, none of
\* the first k-1 files probed as a PDF, the returned file is the one of the
\* k-th attempt, the status tells whether that file probed as a PDF, and a
\* false status means that every source was attempted.
C11_FallbackOrder ==
  /\ Len(attempts) <= Len(Sources)
  /\ \A i \in 1 .. Len(attempts) : attempts[i].source = Sources[i]
  /\ PdfReturned =>
       LET k == Len(attempts)
           good(i) == IF attempts[i].relay THEN env.rvalid[attempts[i].source]
                      ELSE env.valid[attempts[i].source]
       IN  /\ k >= 1
           /\ \A i \in 1 .. (k - 1) : ~good(i)
           /\ pdf_status = good(k)
           /\ pdf_filename = [kind |-> "tmp", n |-> k, ext |-> "pdf"]
           /\ ~pdf_status => k = Len(Sources)

\* process_pdf has returned a validated file after three attempts: only the
\* third source gave a PDF.
C11_Witness ==
  /\ PdfReturned
  /\ Len(attempts) = 3
  /\ pdf_status
  /\ ~env.valid["pub"] /\ ~env.valid["eprint"] /\ env.valid["ads"]
  /\ ~UseRelay

\* C12: the first source attempted is eprint when the identifier contains
\* 'arXiv', and pub otherwise.
C12_PreprintFirst ==
  Len(attempts) >= 1 =>
    attempts[1].source = (IF env.arxiv THEN "eprint" ELSE "pub")

\* C13: right after the attachment step, the fetched file is a linked file of
\* the new publication exactly when the fetch validated; and when it did not
\* validate, the step added one linked URL, the landing page, exactly when
\* the new publication has no Doi field.
C13_AttachRule ==
  (pc = "urls" /\ pub # 0) =>
    /\ pdf_status <=> \E i \in 1 .. Len(New.files) : New.files[i].path = pdf_filename
    /\ ~pdf_status =>
         (Len(New.urls) = Len(Article.entry.urls) + 1 <=> "Doi" \notin DOMAIN New.fields)

\* The URL-linking step is over.
UrlsLinked == pub # 0 /\ pc \in {"kept_pdfs", "note", "fields", "add_notify", "groups", "done"}

\* C14: once the URL-linking step is over, no URL is twice among the linked
\* URLs of the new publication.
C14_NoDuplicateUrls ==
  UrlsLinked =>
    \A i, j \in 1 .. Len(New.urls) : i # j => New.urls[i] # New.urls[j]

\* Linked file lf of the old publication is a PDF that was on disk before
\* the run and carried Skim notes or embedded annotations, or had the kept
\* name already.
AnnotatedPdf(lf) ==
  /\ lf.path # NonePath
  /\ lf.path.ext = "pdf"
  /\ lf.path \in disk0
  /\ \/ lf.skim # NoneText /\ lf.skim # <<>>
     \/ lf.path \in embedded0
     \/ lf.path.tag > 0

\* C15: when safe_delete has returned, every annotated PDF that was linked
\* to the old publication is on disk, under its kept name, and that path is
\* in the returned list; and every PDF that left the disk was a linked PDF
\* without annotations or was renamed to a kept name.
C15_AnnotatedKept ==
  pc = "dup_notify" =>
    /\ \A i \in 1 .. Len(Old.files) :
         AnnotatedPdf(Old.files[i]) =>
           \E j \in 1 .. Len(kept_pdfs) :
             /\ kept_pdfs[j] \in disk
             /\ kept_pdfs[j].stem = Old.files[i].path.stem
             /\ kept_pdfs[j].tag > 0
    /\ \A f \in disk0 \ disk :
         f.ext = "pdf" =>
           \E i \in 1 .. Len(Old.files) :
             /\ Old.files[i].path = f
             /\ AnnotatedPdf(Old.files[i]) =>
                  \E j \in 1 .. Len(kept_pdfs) : kept_pdfs[j].stem = f.stem

\* C16: a notification center that fails to deliver never ends the run: no
\* run ends in an error raised inside notify, and a run with one record
\* that ends has returned True.
C16_DeliveryFailureIgnored ==
  ~env.deliverOK =>
    /\ ~(pc = "crashed" /\ err.line = 369)
    /\ (Ended /\ Len(env.ads) = 1) => (pc = "done" /\ result = "True")

\* The commands that carry a text between double quotes.
TextOps == {"import from", "set abstract to", "make new linked URL", "set its note to"}

\* Command c was rejected by the store: its text is no string literal.
Rejected(c) == c.op \in TextOps /\ ~LiteralOK(c.arg)

\* C17: a command the store rejected is the last command of the run, and the
\* run does not return True.
C17_FailureAborts ==
  \A i \in 1 .. Len(cmds) :
    Rejected(cmds[i]) => (i = Len(cmds) /\ result # "True")

\* Signal t was emitted; a command op was issued.
Emitted(t) == \E i \in 1 .. Len(notified) : notified[i] = t
Issued(op) == \E i \in 1 .. Len(cmds) : cmds[i].op = op

\* C18: once 'New publication added' was emitted, the note was set and the
\* kept groups, if any, were re-assigned; 'Duplicate publication removed' is
\* emitted only in a merge, after the old publication was deleted, and the
\* import of a merge is issued only after it.
C18_SignalOrder ==
  /\ Emitted("New publication added") =>
       /\ Issued("set its note to")
       /\ Issued("return name of fields")
       /\ Len(kept_groups) # 0 => Issued("add_groups")
  /\ Emitted("Duplicate publication removed") =>
       pid # 0 /\ Issued("delete") /\ ~HasPub(pubs, pid)
  /\ (pid # 0 /\ Issued("import from")) => Emitted("Duplicate publication removed")

\* C19: a source attempt goes through the relay exactly when ssh_user,
\* ssh_server and ssh_port are all set.
C19_RelayNeedsAllThree ==
  \A i \in 1 .. Len(attempts) :
    attempts[i].relay <=> /\ env.proxy.ssh_user # None
                          /\ env.proxy.ssh_server # None
                          /\ env.proxy.ssh_port # None

\* C20: the text of every command that carries one is a string literal, no
\* bare double quote or backslash in it, and the text of the note command of
\* a merge is the old note with backslashes, then double quotes, escaped.
C20_TextEscaped ==
  \A i \in 1 .. Len(cmds) :
    cmds[i].op \in TextOps =>
      /\ LiteralOK(cmds[i].arg)
      /\ (cmds[i].op = "set its note to" /\ pid # 0) => cmds[i].arg = Clean(Old.note)

\* Command op was sent to publication p; the position of the first one.
IssuedTo(op, p) == \E i \in 1 .. Len(cmds) : cmds[i].op = op /\ cmds[i].pid = p
FirstPos(op, p) ==
  CHOOSE i \in 1 .. Len(cmds) :
    /\ cmds[i].op = op /\ cmds[i].pid = p
    /\ \A j \in 1 .. (i - 1) : ~(cmds[j].op = op /\ cmds[j].pid = p)

\* The commands that read the groups, the fields and the note of a publication.
PreserveReads == {"get static groups", "return name of fields",
                  "return value of fields", "return its note"}

\* C21: in a merge, safe_delete starts on the old publication only after its
\* groups, fields and note were read, and the import is issued only after the
\* delete; the old publication and its replacement never both exist, and
\* from the delete to the import neither exists.
C21_MergeOrder ==
  pid # 0 =>
    /\ IssuedTo("POSIX path of linked files", pid) =>
         \A op \in PreserveReads :
           /\ IssuedTo(op, pid)
           /\ FirstPos(op, pid) < FirstPos("POSIX path of linked files", pid)
    /\ Issued("import from") =>
         /\ IssuedTo("delete", pid)
         /\ FirstPos("delete", pid) < FirstPos("import from", Doc)
    /\ ~(HasPub(pubs, pid) /\ pub # 0)
    /\ pub # 0 => HasPub(pubs, pub) /\ pub # pid
    /\ (IssuedTo("delete", pid) /\ ~Issued("import from")) =>
         (~HasPub(pubs, pid) /\ pub = 0 /\ Len(pubs) = Len(pubs0) - 1)

\* A merge is done: the old publication, which had a note and was in a
\* document with another publication, is gone and its replacement is there.
C21_Witness ==
  /\ pc = "done"
  /\ pid # 0
  /\ Old.note # <<>>
  /\ Len(pubs0) > 1
  /\ ~HasPub(pubs, pid)
  /\ HasPub(pubs, pub)

\* C22: every rename of an annotated PDF went to the backup name of the same
\* path with the smallest suffix n >= 1 that was not on disk at that moment:
\* the target did not exist, every smaller suffix did, and the search made
\* no more steps than there were files on disk.
C22_SmallestFreeBackup ==
  \A i \in 1 .. Len(renamed) :
    LET r == renamed[i]
        n == r.to.tag
    IN  /\ n >= 1
        /\ r.to = [stem |-> r.from.stem, tag |-> n, ext |-> "pdf"]
        /\ r.to \notin r.disk
        /\ \A m \in 1 .. (n - 1) : [stem |-> r.from.stem, tag |-> m, ext |-> "pdf"] \in r.disk
        /\ n <= Cardinality(r.disk) + 1
        /\ r.from \in r.disk

\* safe_delete has renamed an annotated PDF to the suffix 3, the names with
\* the suffixes 1 and 2 being on disk, and both are still there.
C22_Witness ==
  /\ pc = "dup_notify"
  /\ \E i \in 1 .. Len(renamed) :
       /\ renamed[i].to.tag = 3
       /\ renamed[i].to \in disk
       /\ \A m \in 1 .. 2 : [stem |-> renamed[i].from.stem, tag |-> m, ext |-> "pdf"] \in disk

====
